---- MODULE Spec2Model ----
(***************************************************************************)
(* English Literature Revision Quiz (src/app.py).                          *)
(*                                                                         *)
(* The module models generate_quiz: the entry checks, the fallback chain   *)
(* over models_to_try, and the extraction and repair of the quiz record    *)
(* from the response text.                                                 *)
(*                                                                         *)
(* A response text is a sequence of lexical tokens:                        *)
(*   "fence" a code fence, three backticks                                 *)
(*   "json"  the word json (prose; right after a fence it is its language) *)
(*   "ws"    white space                                                   *)
(*   "txt"   any other prose                                               *)
(*   "{" "}" the braces of the top-level JSON object                       *)
(*   "Q"     the member  "questions": [...]  written plainly               *)
(*   "Qesc"  the same member with its key written with a \u escape, which  *)
(*           json.loads decodes to the key questions                       *)
(*   "S"     a JSON string literal whose content mentions questions        *)
(* The list that "Q" and "Qesc" stand for is carried beside the tokens.    *)
(***************************************************************************)
EXTENDS Integers, Sequences, FiniteSets, TLC

\* ------------------------------------------------------------------ bounds
\* Longest response text, in tokens, that the extraction is explored on.
MaxTextLen == 3
\* Longest questions list of a response.
MaxQuestions == 2
\* Longest options list of a parsed question.
MaxOptions == 5
\* Largest `correct` value of a parsed question (the smallest is -1).
MaxCorrect == 5

\* ----------------------------------------------------------------- catalog
FIRST_FLIGHT_CHAPTERS ==
  [prose |-> << [id |-> "ff_p1", name |-> "A Letter to God", type |-> "prose"],
                [id |-> "ff_p2", name |-> "Nelson Mandela: Long Walk to Freedom", type |-> "prose"],
                [id |-> "ff_p3", name |-> "Two Stories about Flying", type |-> "prose"],
                [id |-> "ff_p4", name |-> "From the Diary of Anne Frank", type |-> "prose"],
                [id |-> "ff_p5", name |-> "Glimpses of India", type |-> "prose"],
                [id |-> "ff_p6", name |-> "Mijbil the Otter", type |-> "prose"],
                [id |-> "ff_p7", name |-> "Madam Rides the Bus", type |-> "prose"],
                [id |-> "ff_p8", name |-> "The Sermon at Benares", type |-> "prose"],
                [id |-> "ff_p9", name |-> "The Proposal", type |-> "prose"] >>,
   poetry |-> << [id |-> "ff_po1", name |-> "Dust of Snow & Fire and Ice", type |-> "poetry"],
                 [id |-> "ff_po2", name |-> "A Tiger in the Zoo", type |-> "poetry"],
                 [id |-> "ff_po3", name |-> "How to Tell Wild Animals & The Ball Poem", type |-> "poetry"],
                 [id |-> "ff_po4", name |-> "Amanda!", type |-> "poetry"],
                 [id |-> "ff_po5", name |-> "Animals & The Trees", type |-> "poetry"],
                 [id |-> "ff_po6", name |-> "Fog & The Tale of Custard the Dragon", type |-> "poetry"],
                 [id |-> "ff_po7", name |-> "For Anne Gregory", type |-> "poetry"] >>]

FOOTPRINTS_CHAPTERS ==
  << [id |-> "fp_1", name |-> "A Triumph of Surgery", type |-> "story"],
     [id |-> "fp_2", name |-> "The Thief's Story", type |-> "story"],
     [id |-> "fp_3", name |-> "The Midnight Visitor", type |-> "story"],
     [id |-> "fp_4", name |-> "A Question of Trust", type |-> "story"],
     [id |-> "fp_5", name |-> "Footprints Without Feet", type |-> "story"],
     [id |-> "fp_6", name |-> "The Making of a Scientist", type |-> "story"],
     [id |-> "fp_7", name |-> "The Necklace", type |-> "story"],
     [id |-> "fp_8", name |-> "The Hack Driver", type |-> "story"],
     [id |-> "fp_9", name |-> "Bholi", type |-> "story"],
     [id |-> "fp_10", name |-> "The Book That Saved the Earth", type |-> "story"] >>

\* The value get_chapter_info returns for an id it does not find.
NoChapter == [id |-> "", name |-> "", type |-> "", book |-> ""]

WithBook(ch, book) == [id |-> ch.id, name |-> ch.name, type |-> ch.type, book |-> book]

\* The first chapter of `chapters` from position i on whose id is chapter_id,
\* with the book added; NoChapter when there is none.
RECURSIVE FindChapter(_, _, _, _)
FindChapter(chapters, chapter_id, book, i) ==
  IF i > Len(chapters) THEN NoChapter
  ELSE IF chapters[i].id = chapter_id THEN WithBook(chapters[i], book)
  ELSE FindChapter(chapters, chapter_id, book, i + 1)

\* A variant of the lookup that answers an unknown id with the first chapter.
get_chapter_info_default(chapter_id) ==
  LET p == FindChapter(FIRST_FLIGHT_CHAPTERS.prose \o FIRST_FLIGHT_CHAPTERS.poetry,
                       chapter_id, "First Flight", 1)
      f == FindChapter(FOOTPRINTS_CHAPTERS, chapter_id, "Footprints Without Feet", 1)
  IN  IF p # NoChapter THEN p
      ELSE IF f # NoChapter THEN f
      ELSE WithBook(FIRST_FLIGHT_CHAPTERS.prose[1], "First Flight")

\* A variant of the lookup whose second loop walks the prose list again.
get_chapter_info_prose_twice(chapter_id) ==
  LET prose == FindChapter(FIRST_FLIGHT_CHAPTERS.prose, chapter_id, "First Flight", 1)
      foot  == FindChapter(FOOTPRINTS_CHAPTERS, chapter_id, "Footprints Without Feet", 1)
  IN  IF prose # NoChapter THEN prose ELSE foot

get_chapter_info(chapter_id) ==
  LET prose  == FindChapter(FIRST_FLIGHT_CHAPTERS.prose, chapter_id, "First Flight", 1)
      poetry == FindChapter(FIRST_FLIGHT_CHAPTERS.poetry, chapter_id, "First Flight", 1)
      foot   == FindChapter(FOOTPRINTS_CHAPTERS, chapter_id, "Footprints Without Feet", 1)
  IN  IF prose # NoChapter THEN prose
      ELSE IF poetry # NoChapter THEN poetry
      ELSE foot

\* The ids of the catalog, read off the tables.
CatalogIds ==
  {FIRST_FLIGHT_CHAPTERS.prose[i].id : i \in DOMAIN FIRST_FLIGHT_CHAPTERS.prose}
  \cup {FIRST_FLIGHT_CHAPTERS.poetry[i].id : i \in DOMAIN FIRST_FLIGHT_CHAPTERS.poetry}
  \cup {FOOTPRINTS_CHAPTERS[i].id : i \in DOMAIN FOOTPRINTS_CHAPTERS}

\* The instruction template the prompt is built from.
PromptTemplate(chapter) == IF chapter.type = "poetry" THEN "poem" ELSE "chapter"

\* ---------------------------------------------------------- fallback chain
models_to_try == <<"gemini-2.5-flash-lite", "gemini-2.0-flash", "gemini-1.5-flash", "gemini-1.5-pro">>

\* An exception a generation call raises: what kind of failure it is, and the
\* words of str(model_error).
NoError == [kind |-> "none", msg |-> <<>>]
QuotaErrors ==
  { [kind |-> "quota", msg |-> <<"429", "Resource", "has", "been", "exhausted">>],
    [kind |-> "quota", msg |-> <<"You", "exceeded", "your", "current", "Quota">>] }
UnavailableErrors ==
  { [kind |-> "unavailable", msg |-> <<"404", "model", "is", "Not", "Found">>],
    [kind |-> "unavailable", msg |-> <<"model", "does", "not", "exist">>] }
OtherErrors ==
  { [kind |-> "other", msg |-> <<"400", "API", "key", "not", "valid">>],
    [kind |-> "other", msg |-> <<"500", "internal", "error">>] }
ModelErrors == QuotaErrors \cup UnavailableErrors \cup OtherErrors

\* str.lower() on the words that occur in the messages.
LowerWord(w) ==
  CASE w = "Quota" -> "quota"
    [] w = "Not" -> "not"
    [] w = "Found" -> "found"
    [] w = "Resource" -> "resource"
    [] w = "You" -> "you"
    [] w = "API" -> "api"
    [] OTHER -> w
Lower(msg) == [i \in DOMAIN msg |-> LowerWord(msg[i])]

\* phrase in msg
Contains(msg, phrase) ==
  \E i \in 1..(Len(msg) - Len(phrase) + 1) : SubSeq(msg, i, i + Len(phrase) - 1) = phrase

\* A classification under which every failure moves on to the next model.
IsRetryableAlways(model_error) == TRUE

\* The two branches of the handler that `continue`.
IsRetryable(model_error) ==
  LET error_str == model_error.msg
  IN  \/ Contains(error_str, <<"429">>) \/ Contains(Lower(error_str), <<"quota">>)
      \/ Contains(Lower(error_str), <<"not", "found">>)
      \/ Contains(Lower(error_str), <<"does", "not", "exist">>)

\* ------------------------------------------------------------ response text
Tokens == {"fence", "json", "ws", "txt", "{", "}", "Q", "Qesc", "S"}

\* The questions member, plain or escaped.
IsMember(tok) == tok \in {"Q", "Qesc"}

\* The characters of a token hold a "{" (a "}"): the brace itself, or the
\* braces of the question objects of a non-empty questions list.
HoldsBrace(tok, brace, questions) ==
  tok = brace \/ (IsMember(tok) /\ questions # <<>>)

\* The characters of a token hold the literal "questions" in double quotes.
HoldsKey(tok) == tok = "Q"

RECURSIVE SkipWs(_, _)
SkipWs(text, i) ==
  IF i <= Len(text) /\ text[i] = "ws" THEN SkipWs(text, i + 1) ELSE i

\* re.sub of a fence followed by json and white space, from position i on.
RECURSIVE SubFenceJson(_, _)
SubFenceJson(text, i) ==
  IF i > Len(text) THEN <<>>
  ELSE IF text[i] = "fence" /\ i + 1 <= Len(text) /\ text[i + 1] = "json"
       THEN SubFenceJson(text, SkipWs(text, i + 2))
       ELSE <<text[i]>> \o SubFenceJson(text, i + 1)

\* re.sub of a fence and the white space after it, from position i on.
RECURSIVE SubFence(_, _)
SubFence(text, i) ==
  IF i > Len(text) THEN <<>>
  ELSE IF text[i] = "fence"
       THEN SubFence(text, SkipWs(text, i + 1))
       ELSE <<text[i]>> \o SubFence(text, i + 1)

\* A variant that leaves the text as it is.
StripFencesNot(text) == text

\* Remove markdown code blocks if present.
StripFences(text) == SubFence(SubFenceJson(text, 1), 1)

\* re.search(r'\{[\s\S]*"questions"[\s\S]*\}', text): the match starts at the
\* first "{" that has the quoted key after it and a "}" after the key, and,
\* being greedy, ends at the last "}" of the text.
NoMatch == [found |-> FALSE, first |-> 0, last |-> 0]
CanStart(text, questions, i) ==
  /\ HoldsBrace(text[i], "{", questions)
  /\ \E j \in (i + 1)..Len(text) :
       /\ HoldsKey(text[j])
       /\ \/ IsMember(text[j]) /\ questions # <<>>
          \/ \E k \in (j + 1)..Len(text) : HoldsBrace(text[k], "}", questions)
re_search(text, questions) ==
  LET starts == {i \in DOMAIN text : CanStart(text, questions, i)}
      ends   == {k \in DOMAIN text : HoldsBrace(text[k], "}", questions)}
  IN  IF starts = {} THEN NoMatch
      ELSE [found |-> TRUE,
            first |-> CHOOSE i \in starts : \A o \in starts : i <= o,
            last  |-> CHOOSE k \in ends : \A o \in ends : k >= o]

\* json_match.group(): the tokens the match covers. A match that starts or
\* ends inside a member covers that member's token, and is no JSON object.
MatchGroup(text, m) == SubSeq(text, m.first, m.last)

\* What json.loads gives.
JSONDecodeError == [type |-> "JSONDecodeError", has_questions |-> FALSE, questions |-> <<>>]
JDict(has, questions) == [type |-> "dict", has_questions |-> has, questions |-> questions]
JString == [type |-> "str", has_questions |-> TRUE, questions |-> <<>>]

NotWs(tok) == tok # "ws"

\* json.loads(text): white space between tokens does not count.
json_loads(text, questions) ==
  LET lexemes == SelectSeq(text, NotWs)
  IN  IF lexemes = <<"{", "}">> THEN JDict(FALSE, <<>>)
      ELSE IF Len(lexemes) = 3 /\ lexemes[1] = "{" /\ IsMember(lexemes[2]) /\ lexemes[3] = "}"
           THEN JDict(TRUE, questions)
      ELSE IF lexemes = <<"S">> THEN JString
      ELSE JSONDecodeError

\* --------------------------------------------------------- question objects
\* A parsed question object is a function from the keys it has to their
\* values; the value of "correct" is a JSON number or a JSON string.
JInt(n) == [t |-> "int", v |-> n]
JStr(n) == [t |-> "str", v |-> n]

\* q[key] = value
Put(q, key, value) == [k \in DOMAIN q \cup {key} |-> IF k = key THEN value ELSE q[k]]

DefaultOptions == <<"Option A", "Option B", "Option C", "Option D">>
DefaultExplanation == "Review this concept carefully."
DefaultKeyword == "Important concept"

\* A variant that accepts three options.
OptionsUnusableBelow3(q) == "options" \notin DOMAIN q \/ Len(q.options) < 3

\* 'options' not in q or len(q['options']) < 4
OptionsUnusable(q) == "options" \notin DOMAIN q \/ Len(q.options) < 4

\* q['correct'] >= len(q['options']), on a number
CorrectTooLarge(q) == q.correct.v >= Len(q.options)

TypeError == [kind |-> "TypeError", msg |-> <<"not", "supported", "between", "str", "and", "int">>]

\* The body of the loop over quiz_data['questions'], on one question:
\* ok is FALSE when the comparison of `correct` with the length raises.
RepairQuestion(q) ==
  LET q1 == IF "correct" \notin DOMAIN q THEN Put(q, "correct", JInt(0)) ELSE q
      q2 == IF OptionsUnusable(q1) THEN Put(q1, "options", DefaultOptions) ELSE q1
      q3 == IF CorrectTooLarge(q2) THEN Put(q2, "correct", JInt(0)) ELSE q2
      q4 == IF "explanation" \notin DOMAIN q3 THEN Put(q3, "explanation", DefaultExplanation) ELSE q3
      q5 == IF "keyword" \notin DOMAIN q4 THEN Put(q4, "keyword", DefaultKeyword) ELSE q4
  IN  IF q2.correct.t # "int" THEN [ok |-> FALSE, q |-> q2] ELSE [ok |-> TRUE, q |-> q5]

\* The loop: every question repaired, or the first TypeError.
RepairAll(questions) ==
  [ok |-> \A i \in DOMAIN questions : RepairQuestion(questions[i]).ok,
   questions |-> [i \in DOMAIN questions |-> RepairQuestion(questions[i]).q]]

\* --------------------------------------------------- what generate_quiz gives
None == [type |-> "None", has_questions |-> FALSE, questions |-> <<>>]

Running == [status |-> "running", value |-> None, exc |-> NoError]
Returns(value) == [status |-> "returned", value |-> value, exc |-> NoError]
Raises(e) == [status |-> "raised", value |-> None, exc |-> e]

\* except Exception as e: print, return None
OuterExcept(e) == Returns(None)

\* 'questions' in quiz_data and len(quiz_data['questions']) > 0
ValidQuiz(quiz_data) == quiz_data.has_questions /\ Len(quiz_data.questions) > 0

\* A fallback that takes whatever parses, without looking for 'questions'.
WholeTextParseUnchecked(response_text, questions) ==
  LET quiz_data == json_loads(response_text, questions)
  IN  IF quiz_data # JSONDecodeError THEN quiz_data ELSE None

\* The fallback: parse the entire response as JSON.
WholeTextParse(response_text, questions) ==
  LET quiz_data == json_loads(response_text, questions)
  IN  IF quiz_data # JSONDecodeError /\ quiz_data.has_questions THEN quiz_data ELSE None

\* From the response text to the returned value: the value, the exception
\* the outer handler caught, and the parsing steps that were tried in order.
ExtractQuiz(text, questions) ==
  LET response_text == StripFences(text)
      json_match == re_search(response_text, questions)
      quiz_data  == json_loads(MatchGroup(response_text, json_match), questions)
      repaired   == RepairAll(quiz_data.questions)
  IN  IF json_match.found /\ quiz_data # JSONDecodeError /\ ValidQuiz(quiz_data)
      THEN IF repaired.ok
           THEN [result |-> Returns(JDict(TRUE, repaired.questions)), caught |-> NoError,
                 steps |-> <<"search">>]
           ELSE [result |-> OuterExcept(TypeError), caught |-> TypeError,
                 steps |-> <<"search">>]
      ELSE [result |-> Returns(WholeTextParse(response_text, questions)), caught |-> NoError,
            steps |-> IF json_match.found THEN <<"search", "whole">> ELSE <<"whole">>]

\* ------------------------------------------------------------------ inputs
OptionTexts == <<"alpha", "beta", "gamma", "delta", "epsilon", "zeta", "eta">>
QuestionTexts == <<"Who wrote the letter?", "What does the fog stand for?",
                   "Where does the bus go?", "Why does the tiger pace?">>
Explanations == <<"Lencho wrote it.", "It is a metaphor.", "To the town.", "It is caged.">>
Keywords == <<"faith", "metaphor", "curiosity", "captivity">>

\* The question object at position i: with `correct` c when has_c (as a JSON
\* string when as_str), with n options when has_o, and with or without
\* explanation and keyword.
MkQuestion(i, has_c, c, as_str, has_o, n, has_expl, has_kw) ==
  LET keys == {"id", "question"}
              \cup (IF has_c THEN {"correct"} ELSE {})
              \cup (IF has_o THEN {"options"} ELSE {})
              \cup (IF has_expl THEN {"explanation"} ELSE {})
              \cup (IF has_kw THEN {"keyword"} ELSE {})
  IN  [k \in keys |->
         CASE k = "id" -> i
           [] k = "question" -> QuestionTexts[i]
           [] k = "correct" -> IF as_str THEN JStr(c) ELSE JInt(c)
           [] k = "options" -> SubSeq(OptionTexts, 1, n)
           [] k = "explanation" -> Explanations[i]
           [] k = "keyword" -> Keywords[i]]

GoodQuestion(i) == MkQuestion(i, TRUE, 1, FALSE, TRUE, 4, TRUE, TRUE)

\* The question objects explored at position i.
QuestionPool(i) ==
  {MkQuestion(i, TRUE, c, FALSE, TRUE, n, TRUE, TRUE) : c \in -1..MaxCorrect, n \in 0..MaxOptions}
  \cup {MkQuestion(i, FALSE, 0, FALSE, TRUE, n, TRUE, TRUE) : n \in 0..MaxOptions}
  \cup {MkQuestion(i, TRUE, c, FALSE, FALSE, 0, TRUE, TRUE) : c \in -1..MaxCorrect}
  \cup {MkQuestion(i, FALSE, 0, FALSE, FALSE, 0, TRUE, TRUE)}
  \cup {MkQuestion(i, TRUE, 2, TRUE, has_o, 4, TRUE, TRUE) : has_o \in BOOLEAN}
  \cup {MkQuestion(i, TRUE, 1, FALSE, TRUE, 4, e, k) : e \in BOOLEAN, k \in BOOLEAN}

\* The questions lists explored: good questions, with any one question of
\* the pool among them.
QuestionLists ==
  {<<>>} \cup
  UNION {{[i \in 1..nn[1] |-> IF i = nn[2] THEN q ELSE GoodQuestion(i)] : q \in QuestionPool(nn[2])} :
           nn \in {mm \in (1..MaxQuestions) \X (1..MaxQuestions) : mm[2] <= mm[1]}}

FewLists == {<<>>, <<GoodQuestion(1)>>, <<MkQuestion(1, TRUE, 5, FALSE, FALSE, 0, FALSE, TRUE)>>}

Texts == UNION {[1..n -> Tokens] : n \in 0..MaxTextLen}
FewTexts == {<<"{", "Q", "}">>, <<"txt", "ws", "{", "ws", "Q", "ws", "}", "ws", "txt">>,
             <<"{", "Qesc", "}">>}

\* A response object: its text, and the list the text's members stand for.
NoResponse == [got |-> FALSE, text |-> <<>>, questions |-> <<>>]
Response(text, questions) == [got |-> TRUE, text |-> text, questions |-> questions]

\* The payload between fence markers, each on a line of its own.
Wrap(text, with_json) ==
  (IF with_json THEN <<"fence", "json", "ws">> ELSE <<"fence", "ws">>) \o text \o <<"ws", "fence">>

\* What the generation backend may answer in the explored runs.
ChainResponses ==
  {Response(<<>>, <<>>)}
  \cup {Response(<<"{", "Q", "}">>, qs) :
          qs \in {<<>>, <<GoodQuestion(1)>>, <<GoodQuestion(1), MkQuestion(2, TRUE, 4, FALSE, TRUE, 5, TRUE, FALSE)>>}}
  \cup {Response(Wrap(<<"{", "ws", "Q", "}">>, TRUE), <<GoodQuestion(1)>>),
        Response(<<"txt", "ws", "txt">>, <<>>),
        Response(<<"{", "}">>, <<>>)}

ChapterIds == {"ff_p1", "ff_po1", "fp_1", "ff_p10"}
ApiKeys == {"", "AIzaA", "AIzaB"}

\* ------------------------------------------------------------------- state
\* Two invocations of generate_quiz, each with its own locals.
Procs == {1, 2}

VARIABLES
  pc,          \* where each invocation is: off, ready, api, entry, lookup, chain, after_loop, extract, done, replied
  chapter_id,  \* argument
  api_key,     \* argument
  chapter,     \* local `chapter`, what get_chapter_info gave
  prompt,      \* the template of the prompt built for the chapter ("" before)
  idx,         \* position of the for loop in models_to_try
  response,    \* local `response`
  last_error,  \* local `last_error`
  result,      \* what the invocation returned or raised
  caught,      \* the exception the outer handler printed
  steps,       \* the parsing steps the extraction tried
  calls,       \* the generation calls made for the invocation, in order
  configured,  \* the api key genai is configured with (one per process)
  backend,     \* what the generation backend may answer: responses and errors
  data,        \* request.json of the request each invocation serves
  http,        \* the response generate_quiz_api sent for it
  \* the page's script
  currentQuiz, currentQuestionIndex, answers, currentChapterId, currentChapterName,
  apiKeyInput,     \* the value of the key field
  apiKeyStatus,    \* the status line under the key field
  loadingOverlay,  \* the overlay has class `show`
  screen,          \* which of homeScreen, quizScreen, resultsScreen is displayed
  skipBtn,         \* the skip button is displayed
  nextBtn,         \* the next button is displayed
  stats,           \* correctCount, incorrectCount, skippedCount of the quiz header
  results,         \* what the results screen shows: nothing while it is not displayed
  alert,           \* the text of the last alert
  fetch            \* the request in flight, if any

\* The state of the page.
client == <<currentQuiz, currentQuestionIndex, answers, currentChapterId, currentChapterName,
            apiKeyInput, apiKeyStatus, loadingOverlay, screen, skipBtn, nextBtn, stats,
            results, alert, fetch>>

\* The state of the server.
server == <<pc, chapter_id, api_key, chapter, prompt, idx, response, last_error, result, caught,
            steps, calls, configured, backend, data, http>>

vars == <<server, client>>

\* response and response.text
HasText(r) == r.got /\ r.text # <<>>

\* A loop that never breaks.
BreaksNever(r) == FALSE

\* if response and response.text: break
Breaks(r) == HasText(r)

\* A handler that keeps the first error it saw.
RecordErrorFirst(previous, model_error) ==
  IF previous # NoError THEN previous ELSE model_error

\* last_error = model_error
RecordError(previous, model_error) == model_error

\* JavaScript's null: no quiz, and an entry of `answers` not filled yet.
NoQuiz == [loaded |-> FALSE, questions |-> <<>>]
Null == [null |-> TRUE]
NoFetch == [sent |-> FALSE, chapter_id |-> "", api_key |-> <<>>]
NoResults == [shown |-> FALSE]

\* The page as the browser loaded it: the script's initial values and the
\* markup's initial display.
InitPage ==
  /\ currentQuiz = NoQuiz
  /\ currentQuestionIndex = 0
  /\ answers = <<>>
  /\ currentChapterId = ""
  /\ currentChapterName = ""
  /\ apiKeyInput = <<>>
  /\ apiKeyStatus = "required"
  /\ loadingOverlay = FALSE
  /\ screen = "home"
  /\ skipBtn = TRUE
  /\ nextBtn = FALSE
  /\ stats = [correct |-> 0, incorrect |-> 0, skipped |-> 0]
  /\ results = NoResults
  /\ alert = ""
  /\ fetch = NoFetch

\* dict.get(key): None when the key is absent.
PyNone == "<None>"
dict_get(d, key) == IF key \in DOMAIN d THEN d[key] ELSE PyNone

\* `not s` on a string or None
Falsy(s) == s = PyNone \/ s = ""

\* `if quiz:` on what generate_quiz returned: None and the empty dict are
\* false, a dict with a key and a non-empty string are true.
PyTruthy(value) == value.type \in {"dict", "str"} /\ value.has_questions

\* jsonify(...): always status 200, the outcome is in the body.
NoReply == [sent |-> FALSE, status |-> 0, body |-> <<>>]
jsonify(body) == [sent |-> TRUE, status |-> 200, body |-> body]

NoChapterIdMessage == "No chapter ID provided"
NoApiKeyMessage == "No API key provided"
FailedMessage == "Failed to generate quiz. Check your API key or quota."

\* generate_quiz_api up to the call of generate_quiz.
Api(p) ==
  /\ pc[p] = "api"
  /\ LET id == dict_get(data[p], "chapter_id")
         key == dict_get(data[p], "api_key")
     IN  IF Falsy(id)
         THEN /\ http' = [http EXCEPT ![p] = jsonify([success |-> FALSE, error |-> NoChapterIdMessage])]
              /\ pc' = [pc EXCEPT ![p] = "replied"]
              /\ UNCHANGED <<chapter_id, api_key>>
         ELSE IF Falsy(key)
         THEN /\ http' = [http EXCEPT ![p] = jsonify([success |-> FALSE, error |-> NoApiKeyMessage])]
              /\ pc' = [pc EXCEPT ![p] = "replied"]
              /\ UNCHANGED <<chapter_id, api_key>>
         ELSE /\ chapter_id' = [chapter_id EXCEPT ![p] = id]
              /\ api_key' = [api_key EXCEPT ![p] = key]
              /\ pc' = [pc EXCEPT ![p] = "entry"]
              /\ UNCHANGED http
  /\ UNCHANGED <<chapter, prompt, idx, response, last_error, result, caught, steps, calls,
                 configured, backend, data, client>>

\* generate_quiz_api after generate_quiz returned: if quiz ... else ...
Reply(p) ==
  /\ pc[p] = "done"
  /\ http' = [http EXCEPT ![p] =
                IF PyTruthy(result[p].value)
                THEN jsonify([success |-> TRUE, quiz |-> result[p].value])
                ELSE jsonify([success |-> FALSE, error |-> FailedMessage])]
  /\ pc' = [pc EXCEPT ![p] = "replied"]
  /\ UNCHANGED <<chapter_id, api_key, chapter, prompt, idx, response, last_error, result, caught,
                 steps, calls, configured, backend, data, client>>

\* generate_quiz(chapter_id, api_key) is called.
Call(p) ==
  /\ pc[p] = "ready"
  /\ \E c \in ChapterIds, k \in ApiKeys :
       /\ chapter_id' = [chapter_id EXCEPT ![p] = c]
       /\ api_key' = [api_key EXCEPT ![p] = k]
  /\ pc' = [pc EXCEPT ![p] = "entry"]
  /\ UNCHANGED <<chapter, prompt, idx, response, last_error, result, caught, steps, calls,
                 configured, backend, data, http, client>>

\* if not api_key: return None; genai.configure(api_key=api_key)
Entry(p) ==
  /\ pc[p] = "entry"
  /\ IF api_key[p] = ""
     THEN /\ result' = [result EXCEPT ![p] = Returns(None)]
          /\ pc' = [pc EXCEPT ![p] = "done"]
          /\ UNCHANGED configured
     ELSE /\ configured' = api_key[p]
          /\ pc' = [pc EXCEPT ![p] = "lookup"]
          /\ UNCHANGED result
  /\ UNCHANGED <<chapter_id, api_key, chapter, prompt, idx, response, last_error, caught,
                 steps, calls, backend, data, http, client>>

\* chapter = get_chapter_info(chapter_id); if not chapter: return None;
\* then the prompt is built and the loop over models_to_try begins.
Lookup(p) ==
  /\ pc[p] = "lookup"
  /\ chapter' = [chapter EXCEPT ![p] = get_chapter_info(chapter_id[p])]
  /\ LET found == chapter'[p]
     IN  IF found = NoChapter
         THEN /\ result' = [result EXCEPT ![p] = Returns(None)]
              /\ pc' = [pc EXCEPT ![p] = "done"]
              /\ UNCHANGED <<prompt, idx, response, last_error>>
         ELSE /\ prompt' = [prompt EXCEPT ![p] = PromptTemplate(found)]
              /\ idx' = [idx EXCEPT ![p] = 1]
              /\ response' = [response EXCEPT ![p] = NoResponse]
              /\ last_error' = [last_error EXCEPT ![p] = NoError]
              /\ pc' = [pc EXCEPT ![p] = "chain"]
              /\ UNCHANGED result
  /\ UNCHANGED <<chapter_id, api_key, caught, steps, calls, configured, backend, data, http, client>>

\* What one generation call comes back with.
Outcomes ==
  {[error |-> NoError, response |-> r] : r \in backend.responses}
  \cup {[error |-> e, response |-> NoResponse] : e \in backend.errors}

\* A loop that never runs out of candidates.
AfterBodyAgain(i) == "chain"

\* Where the loop goes after the body ran on models_to_try[i] without
\* breaking or raising.
AfterBody(i) == IF i < Len(models_to_try) THEN "chain" ELSE "after_loop"

\* One pass of the loop body: a single generate_content call on
\* models_to_try[idx], made with the key genai is configured with.
TryModel(p) ==
  /\ pc[p] = "chain"
  /\ \E out \in Outcomes :
       /\ calls' = [calls EXCEPT ![p] = Append(@, [model |-> models_to_try[idx[p]],
                                                    key |-> configured,
                                                    prompt |-> prompt[p],
                                                    error |-> out.error,
                                                    response |-> out.response])]
       /\ IF out.error = NoError
          THEN /\ response' = [response EXCEPT ![p] = out.response]
               /\ pc' = [pc EXCEPT ![p] =
                           IF Breaks(out.response) THEN "after_loop" ELSE AfterBody(idx[p])]
               /\ idx' = [idx EXCEPT ![p] = IF Breaks(out.response) THEN @ ELSE @ + 1]
               /\ UNCHANGED <<last_error, result, caught>>
          ELSE /\ last_error' = [last_error EXCEPT ![p] = RecordError(@, out.error)]
               /\ IF IsRetryable(out.error)
                  THEN /\ pc' = [pc EXCEPT ![p] = AfterBody(idx[p])]
                       /\ idx' = [idx EXCEPT ![p] = @ + 1]
                       /\ UNCHANGED <<result, caught>>
                  ELSE /\ result' = [result EXCEPT ![p] = OuterExcept(out.error)]
                       /\ caught' = [caught EXCEPT ![p] = out.error]
                       /\ pc' = [pc EXCEPT ![p] = "done"]
                       /\ UNCHANGED idx
               /\ UNCHANGED response
  /\ UNCHANGED <<chapter_id, api_key, chapter, prompt, steps, configured, backend, data, http,
                 client>>

\* if not response or not response.text: raise last_error, or return None
AfterLoop(p) ==
  /\ pc[p] = "after_loop"
  /\ IF ~HasText(response[p])
     THEN /\ pc' = [pc EXCEPT ![p] = "done"]
          /\ IF last_error[p] # NoError
             THEN /\ result' = [result EXCEPT ![p] = OuterExcept(last_error[p])]
                  /\ caught' = [caught EXCEPT ![p] = last_error[p]]
             ELSE /\ result' = [result EXCEPT ![p] = Returns(None)]
                  /\ UNCHANGED caught
     ELSE /\ pc' = [pc EXCEPT ![p] = "extract"]
          /\ UNCHANGED <<result, caught>>
  /\ UNCHANGED <<chapter_id, api_key, chapter, prompt, idx, response, last_error, steps, calls,
                 configured, backend, data, http, client>>

\* The extraction, validation and repair of the quiz from response.text.
Extract(p) ==
  /\ pc[p] = "extract"
  /\ LET x == ExtractQuiz(response[p].text, response[p].questions)
     IN  /\ result' = [result EXCEPT ![p] = x.result]
         /\ caught' = [caught EXCEPT ![p] = x.caught]
         /\ steps' = [steps EXCEPT ![p] = x.steps]
  /\ pc' = [pc EXCEPT ![p] = "done"]
  /\ UNCHANGED <<chapter_id, api_key, chapter, prompt, idx, response, last_error, calls,
                 configured, backend, data, http, client>>

Next == \E p \in Procs : Call(p) \/ Entry(p) \/ Lookup(p) \/ TryModel(p) \/ AfterLoop(p) \/ Extract(p)

\* The locals of an invocation that has not been called.
InitLocals ==
  /\ chapter_id = [p \in Procs |-> ""]
  /\ api_key = [p \in Procs |-> ""]
  /\ chapter = [p \in Procs |-> NoChapter]
  /\ prompt = [p \in Procs |-> ""]
  /\ idx = [p \in Procs |-> 1]
  /\ response = [p \in Procs |-> NoResponse]
  /\ last_error = [p \in Procs |-> NoError]
  /\ result = [p \in Procs |-> Running]
  /\ caught = [p \in Procs |-> NoError]
  /\ steps = [p \in Procs |-> <<>>]
  /\ calls = [p \in Procs |-> <<>>]
  /\ configured = ""
  /\ http = [p \in Procs |-> NoReply]

\* One request at a time, against a backend that may answer anything.
Init ==
  /\ InitLocals
  /\ InitPage
  /\ pc = [p \in Procs |-> IF p = 1 THEN "ready" ELSE "off"]
  /\ data = [p \in Procs |-> <<>>]
  /\ backend = [responses |-> ChainResponses, errors |-> ModelErrors]

Spec == Init /\ [][Next]_vars

\* ---------------------------------------------------- extraction on its own
\* The payloads the extraction is explored on: every short text with a few
\* lists, and a few texts with every list.
ExtractInputs == (Texts \X FewLists) \cup (FewTexts \X QuestionLists)

\* Invocation 1 got a payload as it is, invocation 2 the same payload between
\* fence markers; both are about to extract.
InitExtract ==
  \E in \in ExtractInputs, with_json \in BOOLEAN :
    /\ pc \in [Procs -> {"extract"}]
    /\ chapter_id \in [Procs -> {"ff_p1"}]
    /\ api_key \in [Procs -> {"AIzaA"}]
    /\ chapter \in [Procs -> {get_chapter_info("ff_p1")}]
    /\ prompt \in [Procs -> {"chapter"}]
    /\ idx \in [Procs -> {1}]
    /\ response = [p \in Procs |-> IF p = 1 THEN Response(in[1], in[2])
                                   ELSE Response(Wrap(in[1], with_json), in[2])]
    /\ last_error \in [Procs -> {NoError}]
    /\ result \in [Procs -> {Running}]
    /\ caught \in [Procs -> {NoError}]
    /\ steps \in [Procs -> {<<>>}]
    /\ calls = [p \in Procs |-> <<[model |-> models_to_try[1], key |-> "AIzaA",
                                   prompt |-> "chapter", error |-> NoError,
                                   response |-> response[p]]>>]
    /\ configured = "AIzaA"
    /\ backend = [responses |-> {response[p] : p \in Procs}, errors |-> {}]
    /\ data = [p \in Procs |-> <<>>]
    /\ http = [p \in Procs |-> NoReply]
    /\ InitPage

NextExtract == \E p \in Procs : Extract(p)

ExtractSpec == InitExtract /\ [][NextExtract]_vars

\* ------------------------------------------------------ concurrent requests
\* Two requests at once, against a backend that answers with a quiz or a
\* quota error.
InitConc ==
  /\ InitLocals
  /\ InitPage
  /\ pc = [p \in Procs |-> "ready"]
  /\ data = [p \in Procs |-> <<>>]
  /\ backend = [responses |-> {Response(<<"{", "Q", "}">>, <<GoodQuestion(1)>>)},
                errors |-> {[kind |-> "quota", msg |-> <<"429", "Resource", "has", "been", "exhausted">>]}]

ConcSpec == InitConc /\ [][Next]_vars

\* ------------------------------------------------------------ the endpoint
\* The request bodies explored: any chapter of the catalog, an unknown one, an
\* empty one or none, with a key, an empty key or none.
Requests ==
  {[chapter_id |-> c, api_key |-> k] : c \in CatalogIds \cup {"", "ff_p10"}, k \in {"", "AIzaA"}}
  \cup {[chapter_id |-> c] : c \in {"ff_p1", "ff_p10"}}
  \cup {[api_key |-> k] : k \in {"", "AIzaA"}}

\* One POST to /generate-quiz is being served, against a backend that answers
\* with a quiz, with texts that hold none, or with an error.
InitWire ==
  /\ InitLocals
  /\ InitPage
  /\ \E d \in Requests : data = [p \in Procs |-> IF p = 1 THEN d ELSE <<>>]
  /\ pc = [p \in Procs |-> IF p = 1 THEN "api" ELSE "off"]
  /\ backend = [responses |-> {Response(<<>>, <<>>),
                               Response(<<"{", "Q", "}">>, <<GoodQuestion(1)>>),
                               Response(<<"{", "Q", "}">>, <<>>),
                               Response(<<"S">>, <<>>),
                               Response(<<"txt", "ws", "txt">>, <<>>)},
                errors |-> {[kind |-> "quota", msg |-> <<"429", "Resource", "has", "been", "exhausted">>],
                            [kind |-> "other", msg |-> <<"400", "API", "key", "not", "valid">>]}]

NextWire ==
  \E p \in Procs : Api(p) \/ Entry(p) \/ Lookup(p) \/ TryModel(p) \/ AfterLoop(p) \/ Extract(p) \/ Reply(p)

WireSpec == InitWire /\ [][NextWire]_vars

\* ---------------------------------------------------------------- the page
\* The key field holds a sequence of characters.
\* String.trim(): white space off both ends.
RECURSIVE trimStart(_)
trimStart(s) == IF s # <<>> /\ Head(s) = " " THEN trimStart(Tail(s)) ELSE s
RECURSIVE trimEnd(_)
trimEnd(s) == IF s # <<>> /\ s[Len(s)] = " " THEN trimEnd(SubSeq(s, 1, Len(s) - 1)) ELSE s
trim(s) == trimEnd(trimStart(s))

KeyPrefix == <<"A", "I", "z", "a">>

\* A check that lets every key through.
startsWithAnything(s, prefix) == TRUE

\* String.startsWith(prefix)
startsWith(s, prefix) == Len(s) >= Len(prefix) /\ SubSeq(s, 1, Len(prefix)) = prefix

\* A filter that looks for a field the skip entry does not have.
IsSkippedBySkip(a) == a # Null /\ "skip" \in DOMAIN a /\ a.skip

\* A keyword filter that passes answered entries only.
HasKeywordAnswered(a) == a # Null /\ "selected" \in DOMAIN a /\ a.keyword # ""

\* a && a.isCorrect, a && a.isCorrect === false, a && a.skipped, a && a.keyword
IsCorrect(a) == a # Null /\ "isCorrect" \in DOMAIN a /\ a.isCorrect
IsMistake(a) == a # Null /\ "isCorrect" \in DOMAIN a /\ ~a.isCorrect
IsSkipped(a) == a # Null /\ "skipped" \in DOMAIN a /\ a.skipped
HasKeyword(a) == a # Null /\ "keyword" \in DOMAIN a /\ a.keyword # ""

\* updateStats(): the three counts of the quiz header.
updateStats(a) ==
  [correct |-> Len(SelectSeq(a, IsCorrect)),
   incorrect |-> Len(SelectSeq(a, IsMistake)),
   skipped |-> Len(SelectSeq(a, IsSkipped))]

\* The arithmetic of the JS Number (IEEE 754 binary64) on positive values. A
\* positive Number is [limbs, e]: its significand of 53 bits is a leading 1
\* followed by four limbs of 13 bits, and e is the binary exponent of the
\* leading 1.
LimbBits == 13
LimbCount == 4
RECURSIVE TwoTo(_)
TwoTo(k) == IF k = 0 THEN 1 ELSE 2 * TwoTo(k - 1)
LimbBase == TwoTo(LimbBits)

\* How often num (>= 1) is doubled before it reaches den, and the number of
\* bits of n.
RECURSIVE Doublings(_, _)
Doublings(num, den) == IF num >= den THEN 0 ELSE 1 + Doublings(2 * num, den)
RECURSIVE BitLength(_)
BitLength(n) == IF n = 0 THEN 0 ELSE 1 + BitLength(n \div 2)

\* One added at the last limb; all zeros when every limb was full.
RECURSIVE AddOne(_)
AddOne(limbs) ==
  IF limbs = <<>> THEN <<>>
  ELSE IF limbs[Len(limbs)] + 1 < LimbBase
  THEN SubSeq(limbs, 1, Len(limbs) - 1) \o <<limbs[Len(limbs)] + 1>>
  ELSE AddOne(SubSeq(limbs, 1, Len(limbs) - 1)) \o <<0>>

\* Round to nearest, ties to even: limbs are the first 53 bits of the exact
\* value, half is its next bit, below says that bits after that are not all 0.
RoundNearestEven(limbs, e, half, below) ==
  IF ~(half /\ (below \/ limbs[LimbCount] % 2 = 1)) THEN [limbs |-> limbs, e |-> e]
  ELSE [limbs |-> AddOne(limbs),
        e |-> IF \A i \in 1..LimbCount : limbs[i] = LimbBase - 1 THEN e + 1 ELSE e]

\* num / den for integers 1 <= num <= den: long division, a limb at a time.
NumberDivide(num, den) ==
  LET z == Doublings(num, den)
      r0 == num * TwoTo(z) - den
      r1 == (r0 * LimbBase) % den
      r2 == (r1 * LimbBase) % den
      r3 == (r2 * LimbBase) % den
      r4 == (r3 * LimbBase) % den
  IN  RoundNearestEven(<<(r0 * LimbBase) \div den, (r1 * LimbBase) \div den,
                         (r2 * LimbBase) \div den, (r3 * LimbBase) \div den>>,
                       0 - z, 2 * r4 >= den, (2 * r4) % den # 0)

\* x * k for a Number x and an integer 2 <= k < 2^13: the exact product, limb
\* by limb from the last, then cut back to 53 bits.
NumberTimes(x, k) ==
  LET v4 == x.limbs[4] * k
      v3 == x.limbs[3] * k + (v4 \div LimbBase)
      v2 == x.limbs[2] * k + (v3 \div LimbBase)
      v1 == x.limbs[1] * k + (v2 \div LimbBase)
      digits == <<k + (v1 \div LimbBase), v1 % LimbBase, v2 % LimbBase, v3 % LimbBase, v4 % LimbBase>>
      s == BitLength(digits[1]) - 1
  IN  RoundNearestEven([i \in 1..LimbCount |->
                          (digits[i] % TwoTo(s)) * TwoTo(LimbBits - s) + (digits[i + 1] \div TwoTo(s))],
                       x.e + s,
                       (digits[5] \div TwoTo(s - 1)) % 2 = 1,
                       digits[5] % TwoTo(s - 1) # 0)

\* Math.round(x) for a Number x below 2^13: the integer part, one more when
\* the fraction is a half or above.
MathRound(x) ==
  IF x.e < 0 - 1 THEN 0
  ELSE LET n == LimbBase + x.limbs[1]
       IN  (n \div TwoTo(LimbBits - x.e)) + ((n \div TwoTo(LimbBits - 1 - x.e)) % 2)

\* NaN, which every comparison with a number finds false, is written as a
\* number below every score.
NaN == 0 - 1

\* Math.round((correct / total) * 100) for 0 <= correct <= total; 0 / 0 is NaN
\* and stays NaN.
Percent(correct, total) ==
  IF total = 0 THEN NaN
  ELSE IF correct = 0 THEN 0
  ELSE CHOOSE percent \in {MathRound(product) :
                             product \in {NumberTimes(quotient, 100) :
                                            quotient \in {NumberDivide(correct, total)}}} : TRUE

\* Tiers that start just above 80, 60 and 40.
TierAbove(percent) ==
  IF percent > 80 THEN [title |-> "Excellent Performance!", subtitle |-> "You have a strong grasp of this chapter."]
  ELSE IF percent > 60 THEN [title |-> "Good Job!", subtitle |-> "Review the mistakes to improve further."]
  ELSE IF percent > 40 THEN [title |-> "Keep Practicing!", subtitle |-> "Focus on the keywords and explanations below."]
  ELSE [title |-> "Don't Give Up!", subtitle |-> "Review this chapter and try again."]

\* The title and subtitle for a score.
Tier(percent) ==
  IF percent >= 80 THEN [title |-> "Excellent Performance!", subtitle |-> "You have a strong grasp of this chapter."]
  ELSE IF percent >= 60 THEN [title |-> "Good Job!", subtitle |-> "Review the mistakes to improve further."]
  ELSE IF percent >= 40 THEN [title |-> "Keep Practicing!", subtitle |-> "Focus on the keywords and explanations below."]
  ELSE [title |-> "Don't Give Up!", subtitle |-> "Review this chapter and try again."]

\* [...new Set(s)]: the first occurrence of each element, in order.
RECURSIVE Distinct(_)
Distinct(s) ==
  IF s = <<>> THEN <<>>
  ELSE LET init == Distinct(SubSeq(s, 1, Len(s) - 1))
           last == s[Len(s)]
       IN  IF \E k \in DOMAIN init : init[k] = last THEN init ELSE Append(init, last)

Congratulation == "Great job! You've mastered this chapter. Consider moving to the next one."

\* mistakes.slice(0, 5) without the limit of five.
TakeAll(s) == s

\* mistakes.slice(0, 5)
TakeFive(s) == SubSeq(s, 1, IF Len(s) < 5 THEN Len(s) ELSE 5)

\* A row that shows the two option texts in each other's place.
MistakeRowSwapped(m) ==
  [question |-> m.question, yours |-> m.options[m.correct + 1],
   right |-> m.options[m.selected + 1], explanation |-> m.explanation]

\* The item of the mistakes list made from the entry m: m.question,
\* m.options[m.selected], m.options[m.correct], m.explanation.
MistakeRow(m) ==
  [question |-> m.question, yours |-> m.options[m.selected + 1],
   right |-> m.options[m.correct + 1], explanation |-> m.explanation]

\* showResults(): what the results screen is filled with.
showResults(a, quiz) ==
  LET correct == Len(SelectSeq(a, IsCorrect))
      incorrect == Len(SelectSeq(a, IsMistake))
      skipped == Len(SelectSeq(a, IsSkipped))
      total == Len(quiz.questions)
      percent == Percent(correct, total)
      withKeyword == SelectSeq(a, HasKeyword)
      mistakes == SelectSeq(a, IsMistake)
  IN  [shown |-> TRUE, percent |-> percent, correct |-> correct, incorrect |-> incorrect,
       skipped |-> skipped, title |-> Tier(percent).title, subtitle |-> Tier(percent).subtitle,
       keywords |-> Distinct([k \in DOMAIN withKeyword |-> withKeyword[k].keyword]),
       mistakesSection |-> mistakes # <<>>,
       mistakes |-> [k \in DOMAIN mistakes |-> MistakeRow(mistakes[k])],
       takeaways |-> IF mistakes # <<>>
                     THEN [k \in DOMAIN TakeFive(mistakes) |-> mistakes[k].explanation]
                     ELSE <<Congratulation>>]

\* The quizzes the page is explored on: the first n of seven questions of
\* the data model (four options, an index into them, an explanation, a
\* keyword), some keywords shared.
SessionCorrect == <<1, 3, 2, 0, 1, 2, 3>>
SessionKeywords == <<"faith", "metaphor", "faith", "captivity", "metaphor", "curiosity", "faith">>
SessionTexts == <<"Q1", "Q2", "Q3", "Q4", "Q5", "Q6", "Q7">>
SessionExplanations == <<"E1", "E2", "E3", "E4", "E5", "E6", "E7">>
SessionQuestion(i) ==
  [id |-> i, question |-> SessionTexts[i], options |-> SubSeq(OptionTexts, 1, 4),
   correct |-> SessionCorrect[i], explanation |-> SessionExplanations[i],
   keyword |-> SessionKeywords[i]]
SessionQuiz(n) == [questions |-> [i \in 1..n |-> SessionQuestion(i)]]
SessionLengths == {1, 2, 3}

\* What the fetch may come back with: a quiz, the failure body, or nothing (a
\* network error).
Replies ==
  {jsonify([success |-> TRUE, quiz |-> SessionQuiz(n)]) : n \in SessionLengths}
  \cup {jsonify([success |-> FALSE, error |-> FailedMessage]), NoReply}

\* Successes of the endpoint that carry no quiz of the data model: a quiz
\* without questions, a string in place of the quiz, and a question whose
\* correct index is negative.
StrQuiz == [str |-> "see questions"]
NegativeQuestion == [SessionQuestion(1) EXCEPT !.correct = 0 - 1]
OpenReplies ==
  Replies \cup {jsonify([success |-> TRUE, quiz |-> [questions |-> <<>>]]),
                jsonify([success |-> TRUE, quiz |-> StrQuiz]),
                jsonify([success |-> TRUE, quiz |-> [questions |-> <<NegativeQuestion>>]])}

\* What may be typed into the key field, and the chapter cards clicked.
GoodKey == <<"A", "I", "z", "a", "K">>
KeyInputs == {<<>>, <<" ">>, GoodKey, <<" ">> \o GoodKey \o <<" ">>, <<"A", "I", "z">>,
              <<"B", "I", "z", "a", "K">>}
CardIds == {"ff_p1", "ff_po1"}

FailedAlert == "Failed to generate quiz. Please try again."
ErrorAlert == "An error occurred. Please try again."

\* startQuiz(chapterId, chapterName) up to the fetch.
startQuiz(chapterId, chapterName) ==
  LET apiKey == trim(apiKeyInput)
  IN  IF apiKey = <<>>
      THEN /\ apiKeyStatus' = "enter key first"
           /\ UNCHANGED <<currentChapterId, currentChapterName, loadingOverlay, fetch>>
      ELSE IF ~startsWith(apiKey, KeyPrefix)
      THEN /\ apiKeyStatus' = "invalid format"
           /\ UNCHANGED <<currentChapterId, currentChapterName, loadingOverlay, fetch>>
      ELSE /\ currentChapterId' = chapterId
           /\ currentChapterName' = chapterName
           /\ loadingOverlay' = TRUE
           /\ apiKeyStatus' = "validating"
           /\ fetch' = [sent |-> TRUE, chapter_id |-> chapterId, api_key |-> apiKey]

\* A chapter card of the home screen is clicked.
ClickChapter ==
  /\ screen = "home" /\ ~loadingOverlay
  /\ \E c \in CardIds : startQuiz(c, get_chapter_info(c).name)
  /\ UNCHANGED <<currentQuiz, currentQuestionIndex, answers, apiKeyInput, screen, skipBtn,
                 nextBtn, stats, results, alert, server>>

\* A retry that empties the answers and the header counts as it sends.
RetryQuizDiscards ==
  /\ screen = "results" /\ ~loadingOverlay
  /\ IF currentChapterId # "" /\ currentChapterName # ""
     THEN startQuiz(currentChapterId, currentChapterName)
     ELSE UNCHANGED <<apiKeyStatus, currentChapterId, currentChapterName, loadingOverlay, fetch>>
  /\ answers' = [i \in DOMAIN answers |-> Null]
  /\ stats' = [correct |-> 0, incorrect |-> 0, skipped |-> 0]
  /\ UNCHANGED <<currentQuiz, currentQuestionIndex, apiKeyInput, screen, skipBtn,
                 nextBtn, results, alert, server>>

\* retryQuiz(): the retry button of the results screen.
RetryQuiz ==
  /\ screen = "results" /\ ~loadingOverlay
  /\ IF currentChapterId # "" /\ currentChapterName # ""
     THEN startQuiz(currentChapterId, currentChapterName)
     ELSE UNCHANGED <<apiKeyStatus, currentChapterId, currentChapterName, loadingOverlay, fetch>>
  /\ UNCHANGED <<currentQuiz, currentQuestionIndex, answers, apiKeyInput, screen, skipBtn,
                 nextBtn, stats, results, alert, server>>

\* A render that leaves the next button as it was.
renderQuestionKeepsNext == skipBtn' = TRUE /\ UNCHANGED nextBtn

\* renderQuestion(): what it does to the two buttons under the question. The
\* question text and the options it draws are those of
\* currentQuiz[currentQuestionIndex].
renderQuestion == skipBtn' = TRUE /\ nextBtn' = FALSE

\* An array that starts with every question skipped.
NewAnswersSkipped(questions) == [i \in DOMAIN questions |-> [skipped |-> TRUE, keyword |-> ""]]

\* new Array(currentQuiz.length).fill(null)
NewAnswers(questions) == [i \in DOMAIN questions |-> Null]

\* startQuiz after the await: the quiz is installed and its first question
\* rendered, or an alert is shown; the overlay goes away.
FetchReturnsFrom(replies) ==
  /\ fetch.sent
  /\ \E r \in replies :
       IF r.sent /\ r.body.success /\ "quiz" \in DOMAIN r.body
       THEN IF "questions" \notin DOMAIN r.body.quiz
            THEN \* data.quiz.questions is undefined: currentQuiz.length throws
                 /\ currentQuiz' = NoQuiz
                 /\ currentQuestionIndex' = 0
                 /\ alert' = ErrorAlert
                 /\ UNCHANGED <<answers, stats, screen, results, skipBtn, nextBtn>>
            ELSE /\ currentQuiz' = [loaded |-> TRUE, questions |-> r.body.quiz.questions]
                 /\ currentQuestionIndex' = 0
                 /\ answers' = NewAnswers(currentQuiz'.questions)
                 /\ stats' = [correct |-> 0, incorrect |-> 0, skipped |-> 0]
                 /\ screen' = "quiz"
                 /\ results' = NoResults
                 /\ IF currentQuiz'.questions = <<>>
                    THEN \* currentQuiz[0] is undefined: renderQuestion throws
                         /\ alert' = ErrorAlert
                         /\ UNCHANGED <<skipBtn, nextBtn>>
                    ELSE /\ renderQuestion
                         /\ UNCHANGED alert
       ELSE /\ alert' = IF r.sent THEN FailedAlert ELSE ErrorAlert
            /\ UNCHANGED <<currentQuiz, currentQuestionIndex, answers, stats, screen, results,
                           skipBtn, nextBtn>>
  /\ loadingOverlay' = FALSE
  /\ fetch' = NoFetch
  /\ UNCHANGED <<currentChapterId, currentChapterName, apiKeyInput, apiKeyStatus, server>>

\* The reply is a quiz of the data model, the failure body, or none.
FetchReturns == FetchReturnsFrom(Replies)

\* The reply may also be one of the successes the endpoint sends without a
\* quiz of the data model.
FetchReturnsOpen == FetchReturnsFrom(OpenReplies)

\* The user edits the key field.
TypeKey ==
  /\ ~loadingOverlay
  /\ \E k \in KeyInputs : k # apiKeyInput /\ apiKeyInput' = k
  /\ UNCHANGED <<currentQuiz, currentQuestionIndex, answers, currentChapterId, currentChapterName,
                 apiKeyStatus, loadingOverlay, screen, skipBtn, nextBtn, stats, results, alert,
                 fetch, server>>

\* A quiz screen whose options and buttons can still be clicked under the
\* results.
QuizScreenOrResultsUp == screen \in {"quiz", "results"}

\* The quiz screen, which holds the options, the skip button and the next
\* button, is displayed (display: none in the style sheet, block from
\* startQuiz until showResults or goHome).
QuizScreenUp == screen = "quiz"

\* An entry that compares the selection with the correct index counted from 1.
AnswerEntryOneBased(question, selectedIndex) ==
  [selected |-> selectedIndex,
   correct |-> question.correct,
   isCorrect |-> selectedIndex + 1 = question.correct,
   question |-> question.question,
   options |-> question.options,
   explanation |-> question.explanation,
   keyword |-> question.keyword]

\* The entry selectOption stores, and the one skipQuestion stores.
AnswerEntry(question, selectedIndex) ==
  [selected |-> selectedIndex,
   correct |-> question.correct,
   isCorrect |-> selectedIndex = question.correct,
   question |-> question.question,
   options |-> question.options,
   explanation |-> question.explanation,
   keyword |-> question.keyword]
SkipEntry(question) == [skipped |-> TRUE, keyword |-> question.keyword]

\* currentQuiz[currentQuestionIndex] is a question; selectOption and
\* skipQuestion throw on reading a field of undefined, before they store
\* anything.
CurrentDefined == currentQuestionIndex < Len(currentQuiz.questions)

\* options[question.correct] is one of the rendered options; selectOption
\* throws on marking a missing one, before it stores anything.
Markable(question) == question.correct \in 0..(Len(question.options) - 1)

\* selectOption(selectedIndex): a click on one of the rendered options, which
\* stay clickable after an answer (the class `disabled` only changes the
\* cursor).
SelectOption ==
  /\ QuizScreenUp /\ ~loadingOverlay
  /\ CurrentDefined
  /\ Markable(currentQuiz.questions[currentQuestionIndex + 1])
  /\ LET question == currentQuiz.questions[currentQuestionIndex + 1]
     IN  \E selectedIndex \in 0..(Len(question.options) - 1) :
           /\ answers' = [answers EXCEPT ![currentQuestionIndex + 1] =
                            AnswerEntry(question, selectedIndex)]
           /\ stats' = updateStats(answers')
  /\ skipBtn' = FALSE
  /\ nextBtn' = TRUE
  /\ UNCHANGED <<currentQuiz, currentQuestionIndex, currentChapterId, currentChapterName,
                 apiKeyInput, apiKeyStatus, loadingOverlay, screen, results, alert, fetch, server>>

\* A test that finds a question after every question.
HasNextAlways(index, questions) == TRUE

\* A test that finds no question after any.
HasNextNever(index, questions) == FALSE

\* currentQuestionIndex < currentQuiz.length - 1
HasNext(index, questions) == index < Len(questions) - 1

\* A nextQuestion that shows the results from whatever question it is on.
nextQuestionToResults(a) ==
  /\ results' = showResults(a, currentQuiz)
  /\ screen' = "results"
  /\ UNCHANGED <<currentQuestionIndex, skipBtn, nextBtn>>

\* A nextQuestion that stays on the question.
nextQuestionStay(a) == UNCHANGED <<currentQuestionIndex, skipBtn, nextBtn, screen, results>>

\* nextQuestion(), with `a` the answers at that moment: the next question is
\* rendered, or the results are shown.
nextQuestion(a) ==
  IF HasNext(currentQuestionIndex, currentQuiz.questions)
  THEN /\ currentQuestionIndex' = currentQuestionIndex + 1
       /\ renderQuestion
       /\ UNCHANGED <<screen, results>>
  ELSE /\ results' = showResults(a, currentQuiz)
       /\ screen' = "results"
       /\ UNCHANGED <<currentQuestionIndex, skipBtn, nextBtn>>

\* skipQuestion(): the skip button.
SkipQuestion ==
  /\ QuizScreenUp /\ skipBtn /\ ~loadingOverlay
  /\ CurrentDefined
  /\ answers' = [answers EXCEPT ![currentQuestionIndex + 1] =
                   SkipEntry(currentQuiz.questions[currentQuestionIndex + 1])]
  /\ stats' = updateStats(answers')
  /\ nextQuestion(answers')
  /\ UNCHANGED <<currentQuiz, currentChapterId, currentChapterName, apiKeyInput, apiKeyStatus,
                 loadingOverlay, alert, fetch, server>>

\* The next button.
NextQuestion ==
  /\ QuizScreenUp /\ nextBtn /\ ~loadingOverlay
  /\ nextQuestion(answers)
  /\ UNCHANGED <<currentQuiz, answers, currentChapterId, currentChapterName, apiKeyInput,
                 apiKeyStatus, loadingOverlay, stats, alert, fetch, server>>

\* A goHome that keeps the answers and the index.
GoHomeKeepsAnswers ==
  /\ screen \in {"quiz", "results"} /\ ~loadingOverlay
  /\ screen' = "home"
  /\ results' = NoResults
  /\ currentQuiz' = NoQuiz
  /\ UNCHANGED <<currentQuestionIndex, answers, currentChapterId, currentChapterName,
                 apiKeyInput, apiKeyStatus, loadingOverlay, skipBtn, nextBtn, stats, alert,
                 fetch, server>>

\* goHome(): the exit button of the quiz screen and the home button of the
\* results screen. The results screen is hidden, so it shows nothing.
GoHome ==
  /\ screen \in {"quiz", "results"} /\ ~loadingOverlay
  /\ screen' = "home"
  /\ results' = NoResults
  /\ currentQuiz' = NoQuiz
  /\ currentQuestionIndex' = 0
  /\ answers' = <<>>
  /\ UNCHANGED <<currentChapterId, currentChapterName, apiKeyInput, apiKeyStatus, loadingOverlay,
                 skipBtn, nextBtn, stats, alert, fetch, server>>

NextSession ==
  \/ ClickChapter \/ RetryQuiz \/ FetchReturns \/ TypeKey
  \/ SelectOption \/ SkipQuestion \/ NextQuestion \/ GoHome

\* The page was loaded; no request is being served.
InitSession ==
  /\ InitLocals
  /\ InitPage
  /\ pc = [p \in Procs |-> "off"]
  /\ data = [p \in Procs |-> <<>>]
  /\ backend = [responses |-> {}, errors |-> {}]

SessionSpec == InitSession /\ [][NextSession]_vars

\* The page once a key of the right form is in the key field, which stays
\* there: the cards, the quiz, the results screen and the way home.
InitKeyed ==
  /\ InitLocals
  /\ pc = [p \in Procs |-> "off"]
  /\ data = [p \in Procs |-> <<>>]
  /\ backend = [responses |-> {}, errors |-> {}]
  /\ currentQuiz = NoQuiz
  /\ currentQuestionIndex = 0
  /\ answers = <<>>
  /\ currentChapterId = ""
  /\ currentChapterName = ""
  /\ apiKeyInput = GoodKey
  /\ apiKeyStatus = "required"
  /\ loadingOverlay = FALSE
  /\ screen = "home"
  /\ skipBtn = TRUE
  /\ nextBtn = FALSE
  /\ stats = [correct |-> 0, incorrect |-> 0, skipped |-> 0]
  /\ results = NoResults
  /\ alert = ""
  /\ fetch = NoFetch

NextKeyed ==
  \/ ClickChapter \/ RetryQuiz \/ FetchReturns
  \/ SelectOption \/ SkipQuestion \/ NextQuestion \/ GoHome

\* A user who, on the quiz screen, does not stop for ever: a question on
\* display is eventually answered or skipped, and a next button on display is
\* eventually pressed. Each handler runs to its end without waiting for
\* anything.
FairSessionSpec ==
  /\ InitKeyed
  /\ [][NextKeyed]_vars
  /\ WF_vars(SelectOption \/ SkipQuestion)
  /\ WF_vars(NextQuestion)

\* The same page against an endpoint that may send any of the OpenReplies.
NextOpenSession ==
  \/ ClickChapter \/ RetryQuiz \/ FetchReturnsOpen \/ TypeKey
  \/ SelectOption \/ SkipQuestion \/ NextQuestion \/ GoHome

OpenSessionSpec == InitSession /\ [][NextOpenSession]_vars

\* ------------------------------------------------------- the last question
\* The quizzes whose results are explored: longer ones, on their last
\* question, which was just rendered; every earlier question was answered
\* right, answered wrong, or skipped.
LongLengths == {5, 6, 7}
EarlierEntry(question, kind) ==
  CASE kind = "right" -> AnswerEntry(question, question.correct)
    [] kind = "wrong" -> AnswerEntry(question, (question.correct + 1) % 4)
    [] kind = "skipped" -> SkipEntry(question)

InitResults ==
  /\ InitLocals
  /\ pc = [p \in Procs |-> "off"]
  /\ data = [p \in Procs |-> <<>>]
  /\ backend = [responses |-> {}, errors |-> {}]
  /\ \E n \in LongLengths :
       /\ currentQuiz = [loaded |-> TRUE, questions |-> SessionQuiz(n).questions]
       /\ currentQuestionIndex = n - 1
       /\ \E kinds \in [1..(n - 1) -> {"right", "wrong", "skipped"}] :
            answers = [i \in 1..n |-> IF i < n THEN EarlierEntry(SessionQuestion(i), kinds[i])
                                       ELSE Null]
  /\ stats = updateStats(answers)
  /\ currentChapterId = "ff_p1"
  /\ currentChapterName = get_chapter_info("ff_p1").name
  /\ apiKeyInput = GoodKey
  /\ apiKeyStatus = "validating"
  /\ loadingOverlay = FALSE
  /\ screen = "quiz"
  /\ skipBtn = TRUE
  /\ nextBtn = FALSE
  /\ results = NoResults
  /\ alert = ""
  /\ fetch = NoFetch

NextResults == SelectOption \/ SkipQuestion \/ NextQuestion

ResultsSpec == InitResults /\ [][NextResults]_vars

\* --------------------------------------------------------------- the score
\* Quizzes of up to MaxTotal questions, the seven questions of the data model
\* over and over, on their last question: the first k of the earlier ones were
\* answered right and the others wrong.
MaxTotal == 40
ScoreQuestion(i) == [SessionQuestion(((i - 1) % 7) + 1) EXCEPT !.id = i]

InitScores ==
  /\ InitLocals
  /\ pc = [p \in Procs |-> "off"]
  /\ data = [p \in Procs |-> <<>>]
  /\ backend = [responses |-> {}, errors |-> {}]
  /\ \E n \in 1..MaxTotal :
       /\ currentQuiz = [loaded |-> TRUE, questions |-> [i \in 1..n |-> ScoreQuestion(i)]]
       /\ currentQuestionIndex = n - 1
       /\ \E k \in 0..(n - 1) :
            answers = [i \in 1..n |->
                         IF i = n THEN Null
                         ELSE EarlierEntry(ScoreQuestion(i), IF i <= k THEN "right" ELSE "wrong")]
  /\ stats = updateStats(answers)
  /\ currentChapterId = "ff_p1"
  /\ currentChapterName = get_chapter_info("ff_p1").name
  /\ apiKeyInput = GoodKey
  /\ apiKeyStatus = "validating"
  /\ loadingOverlay = FALSE
  /\ screen = "quiz"
  /\ skipBtn = TRUE
  /\ nextBtn = FALSE
  /\ results = NoResults
  /\ alert = ""
  /\ fetch = NoFetch

ScoreSpec == InitScores /\ [][NextResults]_vars

\* ------------------------------------------------------------------ claims
\* A call failed the way the chain recovers from: a quota or rate-limit
\* error, a model that is not available, or an answer with empty text.
Transient(call) ==
  \/ call.error.kind \in {"quota", "unavailable"}
  \/ call.error = NoError /\ call.response.text = <<>>

GaveText(call) == call.error = NoError /\ call.response.text # <<>>

\* The error of the last call that raised, NoError when none did.
LastRaised(cs) ==
  LET raised == {k \in DOMAIN cs : cs[k].error # NoError}
  IN  IF raised = {} THEN NoError
      ELSE cs[CHOOSE k \in raised : \A o \in raised : k >= o].error

ReturnedDict(p) == result[p].status = "returned" /\ result[p].value.type = "dict"

\* C1: the k-th call is made on the k-th candidate; once a candidate answers
\* with non-empty text, every earlier candidate failed transiently, that text
\* is the chain's response and no later candidate is ever called.
C1_FirstTextEndsChain ==
  \A p \in Procs : \A k \in DOMAIN calls[p] :
    /\ calls[p][k].model = models_to_try[k]
    /\ \A j \in 1..(k - 1) : Transient(calls[p][j])
    /\ GaveText(calls[p][k]) =>
         /\ k = Len(calls[p])
         /\ pc[p] \in {"after_loop", "extract", "done"}
         /\ response[p] = calls[p][k].response

\* C1 witness: candidate 1 raised a quota error, candidate 2 answered with a
\* quiz, and the invocation returned it after these two calls.
C1_Witness ==
  /\ pc[1] = "done"
  /\ Len(calls[1]) = 2
  /\ calls[1][1].error.kind = "quota"
  /\ GaveText(calls[1][2])
  /\ ReturnedDict(1)
  /\ Len(result[1].value.questions) = 1

\* C2: when every candidate failed transiently, generate_quiz returns None
\* and raises nothing; what its handler caught is the last error a candidate
\* raised, and nothing when every candidate answered with empty text.
C2_AllTransientReturnsNone ==
  \A p \in Procs :
    (/\ pc[p] = "done"
     /\ Len(calls[p]) = Len(models_to_try)
     /\ \A k \in DOMAIN calls[p] : Transient(calls[p][k]))
    => /\ result[p] = Returns(None)
       /\ caught[p] = LastRaised(calls[p])

\* C2 witness: a quota error, a model not found, then two empty answers.
C2_Witness ==
  /\ pc[1] = "done"
  /\ Len(calls[1]) = 4
  /\ calls[1][1].error.kind = "quota"
  /\ calls[1][2].error.kind = "unavailable"
  /\ calls[1][3].error = NoError /\ calls[1][3].response.text = <<>>
  /\ calls[1][4].error = NoError /\ calls[1][4].response.text = <<>>
  /\ caught[1] = calls[1][2].error

\* C3: a call that fails with an error that is neither quota nor
\* model-unavailable is the last call of the invocation, which returns None.
C3_FatalErrorAborts ==
  \A p \in Procs : \A k \in DOMAIN calls[p] :
    calls[p][k].error.kind = "other" =>
      /\ k = Len(calls[p])
      /\ pc[p] = "done"
      /\ result[p] = Returns(None)
      /\ caught[p] = calls[p][k].error

\* C3 witness: candidate 1 hit the quota, candidate 2 failed with an invalid
\* key, with two candidates left untried.
C3_Witness ==
  /\ pc[1] = "done"
  /\ Len(calls[1]) = 2
  /\ calls[1][1].error.kind = "quota"
  /\ calls[1][2].error.kind = "other"

\* C4: an invocation with an empty credential or a chapter id that is not in
\* the catalog makes no generation call, raises nothing and returns None.
C4_ConfigErrorMakesNoCall ==
  \A p \in Procs :
    (pc[p] \notin {"off", "ready"} /\ (api_key[p] = "" \/ chapter_id[p] \notin CatalogIds))
    => /\ calls[p] = <<>>
       /\ pc[p] \in {"entry", "lookup", "done"}
       /\ result[p].status # "raised"
       /\ pc[p] = "done" => result[p] = Returns(None)

\* C4 witness: a credential was given, the chapter is unknown, None came back.
C4_Witness ==
  /\ pc[1] = "done"
  /\ api_key[1] # ""
  /\ chapter_id[1] \notin CatalogIds
  /\ result[1] = Returns(None)

\* C5: generate_quiz never returns a quiz record with zero questions.
C5_NeverZeroQuestions ==
  \A p \in Procs : ReturnedDict(p) => Len(result[p].value.questions) > 0

\* C6: every question of a returned quiz record has exactly 4 options and a
\* correct index c with 0 <= c < 4.
C6_FourOptionsValidIndex ==
  \A p \in Procs : ReturnedDict(p) =>
    \A i \in DOMAIN result[p].value.questions :
      LET q == result[p].value.questions[i]
      IN  /\ "options" \in DOMAIN q /\ Len(q.options) = 4
          /\ "correct" \in DOMAIN q /\ q.correct.t = "int"
          /\ 0 <= q.correct.v /\ q.correct.v < 4

\* The record came out of the validation of the questions-shaped substring.
Validated(p) == pc[p] = "done" /\ ReturnedDict(p) /\ steps[p] = <<"search">>

\* The options of a parsed question are missing or fewer than 4.
LacksOptions(q) == "options" \notin DOMAIN q \/ Len(q.options) < 4

C8_OutOfRangeClamped ==
  \A p \in Procs : Validated(p) =>
    \A i \in DOMAIN response[p].questions :
      LET in == response[p].questions[i]
          out == result[p].value.questions[i]
      IN  "correct" \in DOMAIN in =>
            out.correct = IF in.correct.v \in 0..(Len(out.options) - 1)
                          THEN in.correct ELSE JInt(0)

\* C9: the extraction of a payload between fence markers ends as the
\* extraction of the payload itself: the same returned value, the same
\* exception caught.
C9_FenceWrappedSameResult ==
  (pc[1] = "done" /\ pc[2] = "done")
  => result[1] = result[2] /\ caught[1] = caught[2]

\* C9 witness: both extractions ended, the wrapped one on a longer text
\* holding fences, with the same one-question quiz.
C9_Witness ==
  /\ pc[1] = "done" /\ pc[2] = "done"
  /\ Len(response[2].text) > Len(response[1].text)
  /\ \E k \in DOMAIN response[2].text : response[2].text[k] = "fence"
  /\ ReturnedDict(1) /\ ReturnedDict(2)
  /\ Len(result[2].value.questions) = 1

\* C10: every generation call made for an invocation is made with that
\* invocation's own credential.
C10_CallsUseOwnCredential ==
  \A p \in Procs : \A k \in DOMAIN calls[p] : calls[p][k].key = api_key[p]

\* The text holds no member and no string that mentions questions: no step of
\* the extraction can find a quiz in it.
HoldsNoQuiz(text) == \A k \in DOMAIN text : text[k] \notin {"Q", "Qesc", "S"}

\* C17: the calls of an invocation are made on the candidates in priority
\* order, one call per candidate and never more calls than candidates; every
\* call that is followed by another failed transiently, and while the loop
\* runs its next candidate is the one after the last call.
C17_ChainInOrder ==
  \A p \in Procs :
    /\ Len(calls[p]) <= Len(models_to_try)
    /\ \A k \in DOMAIN calls[p] :
         /\ calls[p][k].model = models_to_try[k]
         /\ \A j \in DOMAIN calls[p] : calls[p][j].model = calls[p][k].model => j = k
         /\ k < Len(calls[p]) => Transient(calls[p][k])
    /\ pc[p] = "chain" => idx[p] = Len(calls[p]) + 1 /\ idx[p] <= Len(models_to_try)

\* C17 witness: the first three candidates failed transiently in three ways,
\* the fourth and last one was called and answered with text.
C17_Witness ==
  /\ pc[1] = "done"
  /\ Len(calls[1]) = Len(models_to_try)
  /\ calls[1][1].error.kind = "unavailable"
  /\ calls[1][2].error = NoError /\ calls[1][2].response.text = <<>>
  /\ calls[1][3].error.kind = "quota"
  /\ GaveText(calls[1][4])
  /\ calls[1][4].model = "gemini-1.5-pro"

PoetryIds == {FIRST_FLIGHT_CHAPTERS.poetry[i].id : i \in DOMAIN FIRST_FLIGHT_CHAPTERS.poetry}

\* The invocation ran get_chapter_info.
LookedUp(p) == pc[p] \in {"chain", "after_loop", "extract", "done", "replied"} /\ api_key[p] # ""

\* C15: for an id of the catalog get_chapter_info gives the chapter with that
\* id, and its type is poetry exactly when the id is one of the poetry list;
\* for any other id it gives nothing.
C15_CategoryFollowsCollection ==
  \A p \in Procs : LookedUp(p) =>
    IF chapter_id[p] \in CatalogIds
    THEN /\ chapter[p].id = chapter_id[p]
         /\ chapter[p].type = "poetry" <=> chapter_id[p] \in PoetryIds
         /\ chapter[p].book = "First Flight" <=> chapter_id[p] \notin {FOOTPRINTS_CHAPTERS[i].id : i \in DOMAIN FOOTPRINTS_CHAPTERS}
    ELSE chapter[p] = NoChapter

\* C15 witness: a request for a poem was served and the lookup gave a
\* poetry chapter of First Flight.
C15_Witness ==
  /\ pc[1] = "replied"
  /\ chapter_id[1] \in PoetryIds
  /\ chapter[1].type = "poetry"
  /\ chapter[1].book = "First Flight"
  /\ prompt[1] = "poem"

\* The request lacks a chapter id or a key.
Incomplete(d) == Falsy(dict_get(d, "chapter_id")) \/ Falsy(dict_get(d, "api_key"))

\* C11: an incomplete request is answered with success false and an error
\* without generate_quiz being invoked; a complete one is answered with
\* success true and the quiz exactly when generate_quiz returned a quiz
\* record, and with the one failure message otherwise.
C11_SuccessOnlyForQuizRecord ==
  \A p \in Procs : pc[p] = "replied" =>
    LET body == http[p].body
    IN  /\ http[p].status = 200
        /\ IF Incomplete(data[p])
           THEN /\ body.success = FALSE /\ "error" \in DOMAIN body
                /\ result[p] = Running /\ calls[p] = <<>> /\ configured = ""
           ELSE IF ReturnedDict(p)
           THEN body = [success |-> TRUE, quiz |-> result[p].value]
           ELSE body = [success |-> FALSE, error |-> FailedMessage]

\* What the two parsing steps see of the response of invocation p: the
\* cleaned text, the match of the search and the parse of the match.
Cleaned(p) == StripFences(response[p].text)
SearchParse(p) ==
  LET m == re_search(Cleaned(p), response[p].questions)
  IN  IF m.found THEN json_loads(MatchGroup(Cleaned(p), m), response[p].questions)
      ELSE JSONDecodeError

\* The question has every field the repair provides.
Complete(q) == {"correct", "options", "explanation", "keyword"} \subseteq DOMAIN q

\* C19: the whole-text parse is tried only when the search found nothing or
\* the parse of what it found failed; whatever record is returned has at
\* least one question and every question of it went through the repair; when
\* neither parse succeeds, None is returned.
C19_FallbackOnlyAfterFailedParse ==
  \A p \in Procs : pc[p] = "done" =>
    /\ (\E k \in DOMAIN steps[p] : steps[p][k] = "whole") => SearchParse(p) = JSONDecodeError
    /\ ReturnedDict(p) =>
         /\ Len(result[p].value.questions) > 0
         /\ \A i \in DOMAIN result[p].value.questions : Complete(result[p].value.questions[i])
    /\ (SearchParse(p) = JSONDecodeError
        /\ json_loads(Cleaned(p), response[p].questions) = JSONDecodeError)
       => result[p] = Returns(None)

\* The response is one JSON object whose only member is "questions", with at
\* least one question in its list.
PlainQuiz(p) ==
  /\ SelectSeq(Cleaned(p), NotWs) = <<"{", "Q", "}">>
  /\ Len(response[p].questions) > 0

\* C20: a response that is a quiz of at least one question is returned with
\* as many questions; in each, an absent correct has become 0, an absent
\* explanation or keyword the placeholder, and the id, the question text,
\* four options, an index into the options, an explanation and a keyword
\* that were there are unchanged.
C20_RepairNeverRejects ==
  \A p \in Procs : (pc[p] = "done" /\ PlainQuiz(p)) =>
    /\ ReturnedDict(p)
    /\ Len(result[p].value.questions) = Len(response[p].questions)
    /\ \A i \in DOMAIN response[p].questions :
         LET in == response[p].questions[i]
             out == result[p].value.questions[i]
         IN  /\ out.id = in.id /\ out.question = in.question
             /\ "correct" \notin DOMAIN in => out.correct = JInt(0)
             /\ "explanation" \notin DOMAIN in => out.explanation = DefaultExplanation
             /\ "keyword" \notin DOMAIN in => out.keyword = DefaultKeyword
             /\ "explanation" \in DOMAIN in => out.explanation = in.explanation
             /\ "keyword" \in DOMAIN in => out.keyword = in.keyword
             /\ ("options" \in DOMAIN in /\ Len(in.options) = 4) => out.options = in.options
             /\ ("correct" \in DOMAIN in /\ in.correct.t = "int"
                 /\ in.correct.v \in 0..(Len(out.options) - 1)) => out.correct = in.correct

\* The entry is an answer, with the index that was selected.
Answered(a) == "selected" \in DOMAIN a

\* The key that would be sent does not have the shape of a key: it is empty
\* or does not begin with AIza.
BadKey(input) ==
  LET credential == trim(input)
  IN  \/ credential = <<>>
      \/ Len(credential) < 4
      \/ <<credential[1], credential[2], credential[3], credential[4]>> # <<"A", "I", "z", "a">>

\* C16: while the key field holds no well-shaped key, no step sends a request
\* or shows the loading overlay, and a step that reports the key as missing
\* or malformed leaves the quiz, the index and the answers as they were.
C16_BadKeyStartsNothing ==
  [][BadKey(apiKeyInput) =>
       /\ fetch' = fetch /\ ~fetch.sent
       /\ loadingOverlay' = loadingOverlay
       /\ apiKeyStatus' # apiKeyStatus =>
            /\ apiKeyStatus' \in {"enter key first", "invalid format"}
            /\ UNCHANGED <<currentQuiz, currentQuestionIndex, answers, currentChapterId, screen>>]_vars

\* C16 witness: on the results screen of a finished quiz the key was replaced
\* by one with a wrong prefix and the retry was refused; the finished session
\* is still there and nothing is in flight.
C16_Witness ==
  /\ screen = "results"
  /\ apiKeyStatus = "invalid format"
  /\ apiKeyInput = <<"B", "I", "z", "a", "K">>
  /\ currentQuiz.loaded /\ Len(answers) = 3
  /\ ~fetch.sent /\ ~loadingOverlay

\* C13: while the current question stays the same, an answer recorded for it
\* is not changed by any step.
C13_SecondAnswerRejected ==
  [][(/\ screen = "quiz" /\ screen' = "quiz"
      /\ currentQuiz' = currentQuiz
      /\ currentQuestionIndex' = currentQuestionIndex
      /\ Answered(answers[currentQuestionIndex + 1]))
     => answers'[currentQuestionIndex + 1] = answers[currentQuestionIndex + 1]]_vars

\* The questions answered right, answered wrong, and skipped.
RightSet == {i \in DOMAIN answers : Answered(answers[i])
                                     /\ answers[i].selected = currentQuiz.questions[i].correct}
WrongSet == {i \in DOMAIN answers : Answered(answers[i])
                                     /\ answers[i].selected # currentQuiz.questions[i].correct}
SkippedSet == {i \in DOMAIN answers : "skipped" \in DOMAIN answers[i]}

\* C12: on the results screen the three counts are the numbers of questions
\* answered right, answered wrong and skipped, a skipped question counting
\* in neither of the first two; after Q1 answered right, Q2 skipped and Q3
\* answered wrong they are 1, 1, 1 and the score is 33.
C12_TalliesAtCompleted ==
  screen = "results" =>
    /\ results.correct = Cardinality(RightSet)
    /\ results.incorrect = Cardinality(WrongSet)
    /\ results.skipped = Cardinality(SkippedSet)
    /\ SkippedSet \cap (RightSet \cup WrongSet) = {}
    /\ (Len(answers) = 3 /\ RightSet = {1} /\ SkippedSet = {2} /\ WrongSet = {3})
       => /\ results.correct = 1 /\ results.incorrect = 1 /\ results.skipped = 1
          /\ results.percent = 33

\* C12 witness: the quiz of three questions ended with option 1 on Q1 (its
\* correct one), Q2 skipped and option 0 on Q3 (whose correct one is 2).
C12_Witness ==
  /\ screen = "results"
  /\ Len(answers) = 3
  /\ Answered(answers[1]) /\ answers[1].selected = 1 /\ answers[1].correct = 1
  /\ "skipped" \in DOMAIN answers[2]
  /\ Answered(answers[3]) /\ answers[3].selected = 0 /\ answers[3].correct = 2
  /\ results.percent = 33

\* The k-th question answered wrong, in question order.
Mistake(k) == CHOOSE i \in WrongSet : Cardinality({j \in WrongSet : j < i}) = k - 1

\* C14: without a mistake the takeaways are the one congratulation; with m
\* mistakes they are min(m, 5) entries, the k-th being the explanation of the
\* k-th question answered wrong.
C14_TakeawaysFirstFive ==
  screen = "results" =>
    LET m == Cardinality(WrongSet)
    IN  IF m = 0 THEN results.takeaways = <<Congratulation>>
        ELSE /\ Len(results.takeaways) = (IF m < 5 THEN m ELSE 5)
             /\ \A k \in DOMAIN results.takeaways :
                  results.takeaways[k] = currentQuiz.questions[Mistake(k)].explanation

\* C14 witness: seven questions answered wrong, five takeaways.
C14_Witness ==
  /\ screen = "results"
  /\ Cardinality(WrongSet) = 7
  /\ Len(results.takeaways) = 5
  /\ results.takeaways[5] = "E5"

\* A step in which the awaited reply of a start arrives.
StartReturns == fetch.sent /\ ~fetch'.sent

\* C21: when the reply of a start arrives, either the quiz screen opens on a
\* loaded quiz with index 0 and one empty answer per question, or (the
\* generation failed) an alert is shown and quiz, index, answers, screen and
\* results are what they were; the step that sends the request changes none of
\* them either.
C21_StartInstallsOrKeeps ==
  [][/\ StartReturns =>
          \/ /\ currentQuiz'.loaded
             /\ screen' = "quiz"
             /\ currentQuestionIndex' = 0
             /\ Len(answers') = Len(currentQuiz'.questions)
             /\ \A i \in DOMAIN answers' : answers'[i] = Null
          \/ /\ alert' \in {FailedAlert, ErrorAlert}
             /\ UNCHANGED <<currentQuiz, currentQuestionIndex, answers, screen, results>>
     /\ (~fetch.sent /\ fetch'.sent) =>
          UNCHANGED <<currentQuiz, currentQuestionIndex, answers, screen, results>>]_vars

\* C21 witness: after a failed generation, a second start from the home
\* screen opened a quiz of three questions, none answered.
C21_Witness ==
  /\ screen = "quiz"
  /\ ~fetch.sent
  /\ alert = FailedAlert
  /\ currentQuestionIndex = 0
  /\ Len(currentQuiz.questions) = 3
  /\ answers = <<Null, Null, Null>>

\* The question on display, and a step that answers it while it has no entry.
CurrentQuestion == currentQuiz.questions[currentQuestionIndex + 1]
FirstAnswer ==
  /\ screen = "quiz"
  /\ answers[currentQuestionIndex + 1] = Null
  /\ Len(answers') > currentQuestionIndex
  /\ Answered(answers'[currentQuestionIndex + 1])

\* C22: an answer to a current question without an entry stores, at the
\* current index, the question's correct index and whether the selected index
\* equals it; the index, the quiz, the screen and every other entry stay.
C22_AnswerRecordsEntry ==
  [][FirstAnswer =>
       LET entry == answers'[currentQuestionIndex + 1]
       IN  /\ entry.selected \in 0..(Len(CurrentQuestion.options) - 1)
           /\ entry.correct = CurrentQuestion.correct
           /\ entry.isCorrect = (entry.selected = CurrentQuestion.correct)
           /\ Len(answers') = Len(answers)
           /\ \A j \in DOMAIN answers : j # currentQuestionIndex + 1 => answers'[j] = answers[j]
           /\ UNCHANGED <<currentQuestionIndex, currentQuiz, screen, results>>]_vars

\* C22 witness: on the second of three questions, after a wrong answer to the
\* first, option 3 (the correct one of Q2) was chosen; the third has no entry.
C22_Witness ==
  /\ screen = "quiz"
  /\ Len(answers) = 3
  /\ currentQuestionIndex = 1
  /\ Answered(answers[1]) /\ ~answers[1].isCorrect
  /\ Answered(answers[2]) /\ answers[2].selected = 3 /\ answers[2].correct = 3
  /\ answers[2].isCorrect
  /\ answers[3] = Null

\* A step that skips a current question without an entry.
FirstSkip ==
  /\ screen = "quiz"
  /\ answers[currentQuestionIndex + 1] = Null
  /\ Len(answers') > currentQuestionIndex
  /\ "skipped" \in DOMAIN answers'[currentQuestionIndex + 1]

C24_EntryNeverRevised ==
  [][(screen # "home" /\ screen' # "home" /\ ~StartReturns) =>
       \A i \in DOMAIN answers : answers[i] # Null => answers'[i] = answers[i]]_vars

\* C25: while the current question has no entry the next button is not
\* shown, and a step that records nothing changes neither the index, the
\* quiz, the screen nor the results.
C25_NoAdvanceWithoutEntry ==
  [][(screen = "quiz" /\ answers[currentQuestionIndex + 1] = Null) =>
       /\ ~nextBtn
       /\ answers' = answers =>
            UNCHANGED <<currentQuestionIndex, currentQuiz, screen, results>>]_vars

\* C25 witness: the second of three questions is on display after an answer
\* to the first; it has no entry and the next button is hidden.
C25_Witness ==
  /\ screen = "quiz"
  /\ Len(answers) = 3
  /\ currentQuestionIndex = 1
  /\ Answered(answers[1])
  /\ answers[2] = Null
  /\ ~nextBtn /\ skipBtn

\* A step that takes the page off an answered or skipped current question
\* other than by a reset.
Advance ==
  /\ screen = "quiz"
  /\ answers[currentQuestionIndex + 1] # Null
  /\ screen' # "home"
  /\ currentQuestionIndex' # currentQuestionIndex \/ screen' # screen

\* C26: an advance from a current question that has an entry leaves the
\* answers as they are; from the last question it opens the results, computed
\* from those answers, and from any other it moves the index up by one and
\* stays on the quiz screen.
C26_AdvanceMovesOrCompletes ==
  [][Advance =>
       /\ answers' = answers
       /\ currentQuiz' = currentQuiz
       /\ IF currentQuestionIndex = Len(currentQuiz.questions) - 1
          THEN /\ screen' = "results"
               /\ currentQuestionIndex' = currentQuestionIndex
               /\ results'.shown
               /\ results'.correct = Cardinality({j \in DOMAIN answers : Answered(answers[j])
                                                                         /\ answers[j].isCorrect})
          ELSE /\ currentQuestionIndex' = currentQuestionIndex + 1
               /\ screen' = "quiz"
               /\ results' = results]_vars

\* C26 witness: three questions were answered, none skipped, each followed by
\* the next button; the results are up with three correct answers.
C26_Witness ==
  /\ screen = "results"
  /\ Len(answers) = 3
  /\ currentQuestionIndex = 2
  /\ \A j \in 1..3 : Answered(answers[j]) /\ answers[j].isCorrect
  /\ results.correct = 3

\* C27: while the quiz screen is not up (before a quiz and after its results)
\* a step changes answers, index, results or screen only as the arrival of a
\* started quiz or as the reset from the results screen.
C27_OnlyInProgress ==
  [][screen # "quiz" =>
       \/ UNCHANGED <<answers, currentQuestionIndex, results, screen, currentQuiz>>
       \/ StartReturns /\ screen' = "quiz"
       \/ screen = "results" /\ screen' = "home"]_vars

\* C27 witness: the results of a quiz of two questions are up; the next
\* button, shown by the last answer, sits on the hidden quiz screen.
C27_Witness ==
  /\ screen = "results"
  /\ results.shown
  /\ Len(answers) = 2
  /\ Answered(answers[2])
  /\ nextBtn
  /\ ~loadingOverlay

\* C28: a step that brings the home screen back, from the quiz screen or from
\* the results screen, leaves no quiz, no answers and index 0.
C28_ResetDiscards ==
  [][(screen # "home" /\ screen' = "home") =>
       /\ currentQuiz' = NoQuiz
       /\ answers' = <<>>
       /\ currentQuestionIndex' = 0
       /\ ~results'.shown]_vars

\* C28 witness: the home screen after a quiz in which a question was answered
\* right and another skipped (the header counts are still those): no quiz, no
\* answers, index 0.
C28_Witness ==
  /\ screen = "home"
  /\ stats.correct = 1 /\ stats.skipped = 1
  /\ currentQuiz = NoQuiz
  /\ answers = <<>>
  /\ currentQuestionIndex = 0

\* A step of the results screen that sends the request of a retry.
RetrySent == screen = "results" /\ ~fetch.sent /\ fetch'.sent
NoTally == [correct |-> 0, incorrect |-> 0, skipped |-> 0]

\* C29 as stated: once a retry is sent, no entry and no count of the run
\* before it is left.
C29_RetryDiscardsAtOnce ==
  [][RetrySent => /\ \A i \in DOMAIN answers' : answers'[i] = Null
                  /\ stats' = NoTally]_vars

\* C29 amended: a retry asks for the chapter of the finished quiz and, while
\* it is in flight, leaves quiz, index, answers, counts, results and screen as
\* they were; when the reply holds a quiz, that quiz is installed with index
\* 0, one empty answer per question and counts of zero, on the quiz screen;
\* when the generation failed, the finished session stays as it was.
C29_RetryReplacesOnSuccess ==
  [][/\ RetrySent =>
          /\ fetch'.chapter_id = currentChapterId
          /\ UNCHANGED <<currentQuiz, currentQuestionIndex, answers, stats, results, screen>>
     /\ (screen = "results" /\ StartReturns) =>
          \/ /\ screen' = "quiz"
             /\ currentQuiz'.loaded
             /\ currentQuestionIndex' = 0
             /\ Len(answers') = Len(currentQuiz'.questions)
             /\ \A i \in DOMAIN answers' : answers'[i] = Null
             /\ stats' = NoTally
             /\ ~results'.shown
          \/ UNCHANGED <<currentQuiz, currentQuestionIndex, answers, stats, results, screen>>]_vars

\* C29 witness: a retry is in flight under the results of a finished quiz of
\* two questions, whose entries and counts are still there.
C29_Witness ==
  /\ screen = "results"
  /\ fetch.sent /\ loadingOverlay
  /\ results.shown
  /\ Len(answers) = 2
  /\ Answered(answers[1]) /\ Answered(answers[2])
  /\ stats.correct + stats.incorrect = 2

\* C30: on the results screen the percent is an integer of 0..100, the
\* exact value of 100 * correct / total rounded to the nearest integer with
\* halves up; 1 of 3 gives 33 and 1 of 8 gives 13.
C30_PercentRoundsHalfUp ==
  screen = "results" =>
    LET right == Cardinality(RightSet)
        asked == Len(currentQuiz.questions)
    IN  /\ results.percent \in 0..100
        /\ results.percent = (200 * right + asked) \div (2 * asked)
        /\ (right = 1 /\ asked = 3) => results.percent = 33
        /\ (right = 1 /\ asked = 8) => results.percent = 13

\* The four title and subtitle pairs; TierShown(t) says that the results show
\* the t-th.
TierPairs ==
  <<[title |-> "Excellent Performance!", subtitle |-> "You have a strong grasp of this chapter."],
    [title |-> "Good Job!", subtitle |-> "Review the mistakes to improve further."],
    [title |-> "Keep Practicing!", subtitle |-> "Focus on the keywords and explanations below."],
    [title |-> "Don't Give Up!", subtitle |-> "Review this chapter and try again."]>>
TierShown(t) == results.title = TierPairs[t].title /\ results.subtitle = TierPairs[t].subtitle

\* C31: on the results screen exactly one of the four pairs is shown, and it
\* is the first for a shown percent of 80 or more, the second for 60 to 79,
\* the third for 40 to 59 and the fourth below 40.
C31_TierByPercent ==
  screen = "results" =>
    /\ Cardinality({t \in 1..4 : TierShown(t)}) = 1
    /\ results.percent >= 80 => TierShown(1)
    /\ (results.percent >= 60 /\ results.percent < 80) => TierShown(2)
    /\ (results.percent >= 40 /\ results.percent < 60) => TierShown(3)
    /\ results.percent < 40 => TierShown(4)

\* C31 witness: four of five questions answered right, 80 percent, shown
\* with the first pair.
C31_Witness ==
  /\ screen = "results"
  /\ Len(answers) = 5
  /\ results.correct = 4
  /\ results.percent = 80
  /\ results.title = "Excellent Performance!"

\* The questions that have an entry, and the first of them that carries the
\* keyword kw.
WithEntry == {i \in DOMAIN answers : answers[i] # Null}
FirstWith(kw) ==
  CHOOSE i \in WithEntry : /\ answers[i].keyword = kw
                           /\ \A j \in WithEntry : answers[j].keyword = kw => i <= j

\* C32: on the results screen the keywords shown are those of the entries,
\* of answers and of skips, each once, in the order of the questions where
\* each appears first.
C32_KeywordsOnceInOrder ==
  screen = "results" =>
    LET shown == results.keywords
    IN  /\ {shown[k] : k \in DOMAIN shown} = {answers[i].keyword : i \in WithEntry}
        /\ \A k, l \in DOMAIN shown :
             k < l => /\ shown[k] # shown[l]
                      /\ FirstWith(shown[k]) < FirstWith(shown[l])

\* C32 witness: seven questions with the keywords faith, metaphor, faith,
\* captivity, metaphor, curiosity, faith, the fourth and sixth skipped and the
\* others answered, show four keywords.
C32_Witness ==
  /\ screen = "results"
  /\ Len(answers) = 7
  /\ SkippedSet = {4, 6}
  /\ results.keywords = <<"faith", "metaphor", "captivity", "curiosity">>

\* C33: on the results screen the mistakes list has one row per question
\* answered wrong and no other, in question order; the k-th row shows the
\* text of that question, the text of the option chosen, the text of its
\* correct option and its explanation. The list is on display exactly when
\* there is a mistake.
C33_MistakesInOrder ==
  screen = "results" =>
    /\ Len(results.mistakes) = Cardinality(WrongSet)
    /\ results.mistakesSection = (WrongSet # {})
    /\ \A k \in DOMAIN results.mistakes :
         LET question == currentQuiz.questions[Mistake(k)]
             row == results.mistakes[k]
         IN  /\ row.question = question.question
             /\ row.yours = question.options[answers[Mistake(k)].selected + 1]
             /\ row.right = question.options[question.correct + 1]
             /\ row.explanation = question.explanation

\* C33 witness: of six questions the first and fifth were answered right, the
\* third skipped and the others wrong; the list has three rows, the second of
\* them that of Q4, whose correct option is the first.
C33_Witness ==
  /\ screen = "results"
  /\ Len(answers) = 6
  /\ RightSet = {1, 5} /\ SkippedSet = {3} /\ WrongSet = {2, 4, 6}
  /\ Len(results.mistakes) = 3
  /\ results.mistakes[2].question = "Q4"
  /\ results.mistakes[2].right = "alpha"
  /\ results.mistakes[2].yours # "alpha"

\* C34: whenever the quiz screen or the results screen is up, the index is
\* at least 0 and below the number of questions of the quiz, and there are as
\* many answers as questions.
C34_SessionWellFormed ==
  screen \in {"quiz", "results"} =>
    /\ currentQuiz.loaded
    /\ 0 <= currentQuestionIndex
    /\ currentQuestionIndex < Len(currentQuiz.questions)
    /\ Len(answers) = Len(currentQuiz.questions)

\* C35: every step that ends with the quiz screen up ends with no entry for
\* the questions after the current one and an entry for each question before
\* it; every step that opens the results ends with an entry for every
\* question and with three counts that add up to the number of questions.
C35_ProgressInOrder ==
  [][/\ screen' = "quiz" =>
          \A i \in DOMAIN answers' :
            /\ i > currentQuestionIndex' + 1 => answers'[i] = Null
            /\ i < currentQuestionIndex' + 1 => answers'[i] # Null
     /\ (screen = "quiz" /\ screen' = "results") =>
          /\ Len(answers') = Len(currentQuiz'.questions)
          /\ \A i \in DOMAIN answers' : answers'[i] # Null
          /\ results'.correct + results'.incorrect + results'.skipped
               = Len(currentQuiz'.questions)]_vars

\* C35 witness: the third of three questions is on display, the first was
\* skipped and the second answered; the third has no entry.
C35_Witness ==
  /\ screen = "quiz"
  /\ Len(answers) = 3
  /\ currentQuestionIndex = 2
  /\ "skipped" \in DOMAIN answers[1]
  /\ Answered(answers[2])
  /\ answers[3] = Null

\* C36: with a user who keeps answering or skipping and advancing, a quiz on
\* display leads to its results unless the user goes home; a quiz comes up on
\* index 0, the results open only from the last index, and on the quiz screen
\* the index moves only up and by one, so the results open after as many
\* advances as the quiz has questions; the results screen is left only for the home
\* screen or for the quiz that a retry brought.
C36_QuizReachesResults ==
  /\ (screen = "quiz") ~> (screen \in {"results", "home"})
  /\ [][/\ (screen # "quiz" /\ screen' = "quiz") => currentQuestionIndex' = 0
        /\ (screen = "quiz" /\ screen' = "results") =>
             currentQuestionIndex = Len(currentQuiz.questions) - 1
        /\ (screen = "quiz" /\ screen' = "quiz") =>
             currentQuestionIndex' \in {currentQuestionIndex, currentQuestionIndex + 1}
        /\ (screen = "results" /\ screen' # "results") =>
             \/ screen' = "home"
             \/ StartReturns /\ screen' = "quiz" /\ currentQuestionIndex' = 0]_vars

\* C36 witness: the results of a quiz of three questions, the first answered
\* right, the second skipped, the third answered wrong, reached on its last
\* index.
C36_Witness ==
  /\ screen = "results"
  /\ Len(currentQuiz.questions) = 3
  /\ currentQuestionIndex = 2
  /\ RightSet = {1} /\ SkippedSet = {2} /\ WrongSet = {3}
  /\ results.shown

====
